---------------------------- MODULE Spec2Model ----------------------------
(***************************************************************************)
(* AtomNumber (openmc/deplete/atom_number.py): a table of atom counts      *)
(* indexed by (material, nuclide), addressed by name, by integer position  *)
(* or by slice, with a per-material volume side table.                     *)
(*                                                                         *)
(* Arrays are TLA+ sequences (1-based); every position that appears in a   *)
(* key, in index_mat / index_nuc or in n_nuc_burn is the 0-based Python    *)
(* position, and the array helpers add 1 when they touch a sequence.       *)
(* Floats are modelled by the integers they hold exactly; a quotient is a  *)
(* normalised fraction <<num, den>>, with <<0,0>> for nan and <<1,0>>,     *)
(* <<-1,0>> for +inf, -inf (numpy float64 division does not raise).        *)
(* The read methods change nothing and are operators over the state; the   *)
(* four writing methods are the actions.                                   *)
(***************************************************************************)
EXTENDS Integers, Sequences, FiniteSets

VARIABLES
    local_mats,   \* constructor argument: list of material IDs
    nuclides,     \* constructor argument: list of nuclide names
    volume_arg,   \* constructor argument: dict material ID -> volume
    index_mat,    \* self.index_mat: dict, as the sequence of its items
    index_nuc,    \* self.index_nuc: dict, as the sequence of its items
    volume,       \* self.volume: 1-D array
    n_nuc_burn,   \* self.n_nuc_burn
    number,       \* self.number: 2-D array, a sequence of rows
    raised        \* what the most recent call raised; "none" if it returned

vars == <<local_mats, nuclides, volume_arg, index_mat, index_nuc, volume,
          n_nuc_burn, number, raised>>

---------------------------------------------------------------------------
(* Bounds of the model and the input alphabets.                            *)

MaxMat == 2
MaxNuc == 2

MatNames == {"1", "2"}
NucNames == {"U235", "O16"}
NoMat == "7"
NoNuc == "Xe135"
VolKeys == {"1"}
VolVals == {0, 2}
Vals == {1, 2}
DensVals == {1}
MatIds == {1, 2}

RECURSIVE SeqsOfLen(_, _)
SeqsOfLen(S, n) ==
    IF n = 0 THEN {<<>>}
    ELSE {Append(s, x) : s \in SeqsOfLen(S, n - 1), x \in S}

SeqsUpTo(S, lo, hi) == UNION {SeqsOfLen(S, n) : n \in lo..hi}

Min(a, b) == IF a < b THEN a ELSE b
Max(a, b) == IF a > b THEN a ELSE b

---------------------------------------------------------------------------
(* Python dicts keep insertion order; assigning an existing key replaces   *)
(* its value and keeps its place.                                          *)

DictHas(d, k) == \E p \in 1..Len(d) : d[p].k = k

DictGet(d, k) == d[CHOOSE p \in 1..Len(d) : d[p].k = k].v

DictSet(d, k, v) ==
    IF DictHas(d, k)
    THEN [p \in 1..Len(d) |-> IF d[p].k = k THEN [k |-> k, v |-> v] ELSE d[p]]
    ELSE Append(d, [k |-> k, v |-> v])

DictKeys(d) == [p \in 1..Len(d) |-> d[p].k]

\* EnumerateDict keeping the first position of a repeated name
RECURSIVE EnumerateDict_first(_, _)
EnumerateDict_first(xs, n) ==
    IF n = 0 THEN <<>>
    ELSE LET d == EnumerateDict_first(xs, n - 1)
         IN  IF DictHas(d, xs[n]) THEN d ELSE DictSet(d, xs[n], n - 1)

\* {x: i for i, x in enumerate(xs)}
RECURSIVE EnumerateDict(_, _)
EnumerateDict(xs, n) ==
    IF n = 0 THEN <<>>
    ELSE DictSet(EnumerateDict(xs, n - 1), xs[n], n - 1)

\* str(mat.id)
Str(i) ==
    CASE i = 0 -> "0" [] i = 1 -> "1" [] i = 2 -> "2" [] i = 3 -> "3"
      [] i = 4 -> "4" [] OTHER -> "?"

---------------------------------------------------------------------------
(* Index keys: a string, an integer, a slice [:stop], or (materials only)  *)
(* an openmc.Material carrying an id.                                      *)

Name(s) == [t |-> "str", s |-> s, i |-> 0]
Pos(i) == [t |-> "int", s |-> "", i |-> i]
Slice(stop) == [t |-> "slice", s |-> "", i |-> stop]
MatObj(id) == [t |-> "mat", s |-> "", i |-> id]

\* Values handed to a write: a Python float, or a 1-D array.
Scalar(x) == [sc |-> TRUE, xs |-> <<x>>]
Vec(xs) == [sc |-> FALSE, xs |-> xs]

ZeroRow(n) == [c \in 1..n |-> 0]


---------------------------------------------------------------------------
(* numpy basic indexing on one axis of length n.  An integer i is valid    *)
(* for -n <= i < n and a negative one counts from the end; anything else   *)
(* raises IndexError.  A slice [:stop] never raises: stop is clamped.      *)

RangeSeq(k) == [p \in 1..k |-> p - 1]

SliceStop(stop, n) == IF stop < 0 THEN Max(n + stop, 0) ELSE Min(stop, n)

\* AxisIndex refusing negative integers
AxisIndex_nowrap(key, n) ==
    IF key.t = "int"
    THEN IF key.i >= 0 /\ key.i < n
         THEN [err |-> "none", multi |-> FALSE, idx |-> <<key.i>>]
         ELSE [err |-> "IndexError", multi |-> FALSE, idx |-> <<>>]
    ELSE [err |-> "none", multi |-> TRUE,
          idx |-> RangeSeq(SliceStop(key.i, n))]

AxisIndex(key, n) ==
    IF key.t = "int"
    THEN IF key.i >= -n /\ key.i < n
         THEN [err |-> "none", multi |-> FALSE,
               idx |-> <<IF key.i < 0 THEN key.i + n ELSE key.i>>]
         ELSE [err |-> "IndexError", multi |-> FALSE, idx |-> <<>>]
    ELSE [err |-> "none", multi |-> TRUE,
          idx |-> RangeSeq(SliceStop(key.i, n))]

InIdx(idx, x) == \E p \in 1..Len(idx) : idx[p] = x
PosIn(idx, x) == CHOOSE p \in 1..Len(idx) : idx[p] = x

NRows(num) == Len(num)
NCols(num) == IF Len(num) = 0 THEN 0 ELSE Len(num[1])

Failed(e) == [err |-> e, shape |-> "none", val |-> 0]

\* num[rk, ck]
ArrGet(num, rk, ck) ==
    LET r == AxisIndex(rk, NRows(num))
        c == AxisIndex(ck, NCols(num))
    IN  IF r.err # "none" \/ c.err # "none" THEN Failed("IndexError")
        ELSE IF ~r.multi /\ ~c.multi
        THEN [err |-> "none", shape |-> "scalar",
              val |-> num[r.idx[1] + 1][c.idx[1] + 1]]
        ELSE IF ~r.multi
        THEN [err |-> "none", shape |-> "vec",
              val |-> [q \in 1..Len(c.idx) |-> num[r.idx[1] + 1][c.idx[q] + 1]]]
        ELSE IF ~c.multi
        THEN [err |-> "none", shape |-> "vec",
              val |-> [p \in 1..Len(r.idx) |-> num[r.idx[p] + 1][c.idx[1] + 1]]]
        ELSE [err |-> "none", shape |-> "mat",
              val |-> [p \in 1..Len(r.idx) |->
                         [q \in 1..Len(c.idx) |-> num[r.idx[p] + 1][c.idx[q] + 1]]]]

\* num[rk, ck] = val.  The indices are resolved first (IndexError), then val
\* is broadcast to the selection: a scalar or a one-element array fills it,
\* a longer 1-D array must match the selection's last axis (ValueError).
ArrSet(num, rk, ck, val) ==
    LET r == AxisIndex(rk, NRows(num))
        c == AxisIndex(ck, NCols(num))
        tlen == IF c.multi THEN Len(c.idx)
                ELSE IF r.multi THEN Len(r.idx) ELSE 1
        one == val.sc \/ Len(val.xs) = 1
        elem(i, j) == IF one THEN val.xs[1]
                      ELSE IF c.multi THEN val.xs[PosIn(c.idx, j)]
                      ELSE val.xs[PosIn(r.idx, i)]
    IN  IF r.err # "none" \/ c.err # "none"
        THEN [err |-> "IndexError", number |-> num]
        ELSE IF ~one /\ Len(val.xs) # tlen
        THEN [err |-> "ValueError", number |-> num]
        ELSE [err |-> "none",
              number |-> [i \in 1..NRows(num) |-> [j \in 1..NCols(num) |->
                  IF InIdx(r.idx, i - 1) /\ InIdx(c.idx, j - 1)
                  THEN elem(i - 1, j - 1) ELSE num[i][j]]]]

\* vol[k] on the 1-D volume array
VolGet(vol, k) ==
    LET r == AxisIndex(k, Len(vol))
    IN  IF r.err # "none" THEN Failed("IndexError")
        ELSE IF ~r.multi
        THEN [err |-> "none", shape |-> "scalar", val |-> vol[r.idx[1] + 1]]
        ELSE [err |-> "none", shape |-> "vec",
              val |-> [p \in 1..Len(r.idx) |-> vol[r.idx[p] + 1]]]

---------------------------------------------------------------------------
(* float64 division of exactly held integers.                              *)

Abs(x) == IF x < 0 THEN -x ELSE x

RECURSIVE Gcd(_, _)
Gcd(a, b) == IF b = 0 THEN a ELSE Gcd(b, a % b)

FDiv(x, y) ==
    IF y = 0
    THEN IF x = 0 THEN <<0, 0>> ELSE IF x > 0 THEN <<1, 0>> ELSE <<-1, 0>>
    ELSE LET g == Gcd(Abs(x), Abs(y))
             sgn == IF y < 0 THEN -1 ELSE 1
         IN  <<(sgn * x) \div g, (sgn * y) \div g>>

---------------------------------------------------------------------------
(* The methods.  A lookup of a missing key in index_mat raises KeyError,   *)
(* named UnknownMaterial here, and in index_nuc UnknownNuclide; numpy's    *)
(* IndexError and ValueError keep their names.  The table a method reads   *)
(* or writes is the parameter num, so that a method can be applied to the  *)
(* table another one has produced.                                         *)

\* _get_mat_index: a Material becomes str(mat.id), a string is looked up,
\* an integer or a slice is returned as it is.
get_mat_index(mat) ==
    LET m == IF mat.t = "mat" THEN Name(Str(mat.i)) ELSE mat
    IN  IF m.t = "str"
        THEN IF DictHas(index_mat, m.s)
             THEN [err |-> "none", k |-> Pos(DictGet(index_mat, m.s))]
             ELSE [err |-> "UnknownMaterial", k |-> m]
        ELSE [err |-> "none", k |-> m]

\* get_nuc_index falling back to position 0 for a missing name
get_nuc_index_default(nuc) ==
    IF nuc.t = "str"
    THEN IF DictHas(index_nuc, nuc.s)
         THEN [err |-> "none", k |-> Pos(DictGet(index_nuc, nuc.s))]
         ELSE [err |-> "none", k |-> Pos(0)]
    ELSE [err |-> "none", k |-> nuc]

\* if isinstance(nuc, str): nuc = self.index_nuc[nuc]
get_nuc_index(nuc) ==
    IF nuc.t = "str"
    THEN IF DictHas(index_nuc, nuc.s)
         THEN [err |-> "none", k |-> Pos(DictGet(index_nuc, nuc.s))]
         ELSE [err |-> "UnknownNuclide", k |-> nuc]
    ELSE [err |-> "none", k |-> nuc]

\* __getitem__
getitem(num, mat, nuc) ==
    LET m == get_mat_index(mat)
        n == get_nuc_index(nuc)
    IN  IF m.err # "none" THEN Failed(m.err)
        ELSE IF n.err # "none" THEN Failed(n.err)
        ELSE ArrGet(num, m.k, n.k)

\* __setitem__ without the conversion of a nuclide name: numpy refuses a string
setitem_nuc_unresolved(num, mat, nuc, val) ==
    LET m == get_mat_index(mat)
    IN  IF m.err # "none" THEN [err |-> m.err, number |-> num]
        ELSE IF nuc.t = "str" THEN [err |-> "IndexError", number |-> num]
        ELSE ArrSet(num, m.k, nuc, val)

\* __setitem__
setitem(num, mat, nuc, val) ==
    LET m == get_mat_index(mat)
        n == get_nuc_index(nuc)
    IN  IF m.err # "none" THEN [err |-> m.err, number |-> num]
        ELSE IF n.err # "none" THEN [err |-> n.err, number |-> num]
        ELSE ArrSet(num, m.k, n.k, val)

materials == DictKeys(index_mat)

nuclide_names == DictKeys(index_nuc)

n_nuc == Len(index_nuc)

\* burnable_nuclides with <= for <
burnable_nuclides_le ==
    DictKeys(SelectSeq(index_nuc, LAMBDA it : it.v <= n_nuc_burn))

burnable_nuclides ==
    DictKeys(SelectSeq(index_nuc, LAMBDA it : it.v < n_nuc_burn))

get_mat_volume(mat) ==
    LET m == get_mat_index(mat)
    IN  IF m.err # "none" THEN Failed(m.err) ELSE VolGet(volume, m.k)

\* self[mat, nuc] / self.volume[mat], for a single material
get_atom_density(num, mat, nuc) ==
    LET m == get_mat_index(mat)
        n == get_nuc_index(nuc)
        a == getitem(num, m.k, n.k)
        v == VolGet(volume, m.k)
    IN  IF m.err # "none" THEN Failed(m.err)
        ELSE IF n.err # "none" THEN Failed(n.err)
        ELSE IF a.err # "none" THEN Failed(a.err)
        ELSE IF a.shape = "scalar"
        THEN [err |-> "none", shape |-> "scalar", val |-> FDiv(a.val, v.val)]
        ELSE [err |-> "none", shape |-> "vec",
              val |-> [q \in 1..Len(a.val) |-> FDiv(a.val[q], v.val)]]

\* set_atom_density storing the density itself
set_atom_density_noscale(num, mat, nuc, val) ==
    LET m == get_mat_index(mat)
        n == get_nuc_index(nuc)
        v == VolGet(volume, m.k)
    IN  IF m.err # "none" THEN [err |-> m.err, number |-> num]
        ELSE IF n.err # "none" THEN [err |-> n.err, number |-> num]
        ELSE IF v.err # "none" THEN [err |-> v.err, number |-> num]
        ELSE setitem(num, m.k, n.k, val)

\* self[mat, nuc] = val * self.volume[mat], for a single material
set_atom_density(num, mat, nuc, val) ==
    LET m == get_mat_index(mat)
        n == get_nuc_index(nuc)
        v == VolGet(volume, m.k)
    IN  IF m.err # "none" THEN [err |-> m.err, number |-> num]
        ELSE IF n.err # "none" THEN [err |-> n.err, number |-> num]
        ELSE IF v.err # "none" THEN [err |-> v.err, number |-> num]
        ELSE setitem(num, m.k, n.k,
                     [sc |-> val.sc,
                      xs |-> [q \in 1..Len(val.xs) |-> val.xs[q] * v.val]])

\* get_mat_slice over all the nuclides
get_mat_slice_all(num, mat) ==
    LET m == get_mat_index(mat)
    IN  IF m.err # "none" THEN Failed(m.err)
        ELSE getitem(num, m.k, Slice(n_nuc))

get_mat_slice(num, mat) ==
    LET m == get_mat_index(mat)
    IN  IF m.err # "none" THEN Failed(m.err)
        ELSE getitem(num, m.k, Slice(n_nuc_burn))

\* set_mat_slice dropping the material index: self.number[:, :n] = val
set_mat_slice_allrows(num, mat, val) ==
    LET m == get_mat_index(mat)
    IN  IF m.err # "none" THEN [err |-> m.err, number |-> num]
        ELSE setitem(num, Slice(NRows(num)), Slice(n_nuc_burn), val)

set_mat_slice(num, mat, val) ==
    LET m == get_mat_index(mat)
    IN  IF m.err # "none" THEN [err |-> m.err, number |-> num]
        ELSE setitem(num, m.k, Slice(n_nuc_burn), val)

\* set_density looking the i-th array's material up by the name str(i)
RECURSIVE set_density_from_byname(_, _, _)
set_density_from_byname(num, total_density, i) ==
    IF i >= Len(total_density) THEN [err |-> "none", number |-> num]
    ELSE LET r == set_mat_slice(num, Name(Str(i)), Vec(total_density[i + 1]))
         IN  IF r.err # "none" THEN r
             ELSE set_density_from_byname(r.number, total_density, i + 1)

\* for i, density_slice in enumerate(total_density):
\*     self.set_mat_slice(i, density_slice)
\* from row i on; an exception ends the loop with the earlier rows written.
RECURSIVE set_density_from(_, _, _)
set_density_from(num, total_density, i) ==
    IF i >= Len(total_density) THEN [err |-> "none", number |-> num]
    ELSE LET r == set_mat_slice(num, Pos(i), Vec(total_density[i + 1]))
         IN  IF r.err # "none" THEN r
             ELSE set_density_from(r.number, total_density, i + 1)

set_density(num, total_density) == set_density_from(num, total_density, 0)

---------------------------------------------------------------------------
(* __init__                                                                *)

\* for mat, val in volume.items(): if mat in index_mat: volume[index_mat[mat]] = val
RECURSIVE FillVolume(_, _, _, _)
FillVolume(vol, imat, varg, keys) ==
    IF keys = {} THEN vol
    ELSE LET mat == CHOOSE k \in keys : TRUE
             nxt == IF DictHas(imat, mat)
                    THEN [vol EXCEPT ![DictGet(imat, mat) + 1] = varg[mat]]
                    ELSE vol
         IN  FillVolume(nxt, imat, varg, keys \ {mat})

\* InitVolume starting from np.zeros
InitVolume_zeros(mats, imat, varg) ==
    FillVolume([i \in 1..Len(mats) |-> 0], imat, varg, DOMAIN varg)

InitVolume(mats, imat, varg) ==
    FillVolume([i \in 1..Len(mats) |-> 1], imat, varg, DOMAIN varg)

InitNumber(mats, nucs) == [i \in 1..Len(mats) |-> ZeroRow(Len(nucs))]

VolumeArgs == UNION {[S -> VolVals] : S \in SUBSET VolKeys}

Init ==
    /\ local_mats \in SeqsUpTo(MatNames, 1, MaxMat)
    /\ nuclides \in SeqsUpTo(NucNames, 1, MaxNuc)
    /\ volume_arg \in VolumeArgs
    /\ n_nuc_burn \in 0..Len(nuclides)
    /\ index_mat = EnumerateDict(local_mats, Len(local_mats))
    /\ index_nuc = EnumerateDict(nuclides, Len(nuclides))
    /\ volume = InitVolume(local_mats, index_mat, volume_arg)
    /\ number = InitNumber(local_mats, nuclides)
    /\ raised = "none"

---------------------------------------------------------------------------
(* The arguments the callers are given to choose from.                     *)

MatKeys1 ==
    {Name(s) : s \in MatNames \cup {NoMat}}
    \cup {Pos(i) : i \in -(MaxMat + 1)..MaxMat}
    \cup {MatObj(id) : id \in MatIds}

MatKeys == MatKeys1 \cup {Slice(k) : k \in 0..MaxMat}

NucKeys ==
    {Name(s) : s \in NucNames \cup {NoNuc}}
    \cup {Pos(i) : i \in -(MaxNuc + 1)..MaxNuc}
    \cup {Slice(k) : k \in 0..MaxNuc}

Scalars == {Scalar(x) : x \in Vals}
Densities == {Scalar(x) : x \in DensVals}
Rows == SeqsUpTo(Vals, 0, MaxNuc)
Vecs == {Vec(xs) : xs \in Rows}
\* lists of equally long arrays
TotalDensities ==
    UNION {SeqsOfLen(SeqsOfLen(Vals, k), l) : k \in 0..MaxNuc, l \in 0..MaxMat}

Unchanged == <<local_mats, nuclides, volume_arg, index_mat, index_nuc,
               volume, n_nuc_burn>>

\* An exception propagates to the caller and ends the run: the object stays
\* as the failing call left it.
Write(r) ==
    /\ number' = r.number
    /\ raised' = r.err
    /\ UNCHANGED Unchanged

SetItem ==
    /\ raised = "none"
    /\ \E mat \in MatKeys, nuc \in NucKeys, val \in Scalars :
           Write(setitem(number, mat, nuc, val))

SetAtomDensity ==
    /\ raised = "none"
    /\ \E mat \in MatKeys1, nuc \in NucKeys, val \in Densities :
           Write(set_atom_density(number, mat, nuc, val))

SetMatSlice ==
    /\ raised = "none"
    /\ \E mat \in MatKeys, val \in Vecs :
           Write(set_mat_slice(number, mat, val))

SetDensity ==
    /\ raised = "none"
    /\ \E total_density \in TotalDensities :
           Write(set_density(number, total_density))

Next == SetItem \/ SetAtomDensity \/ SetMatSlice \/ SetDensity

Spec == Init /\ [][Next]_vars

---------------------------------------------------------------------------
(* What the claims speak of, stated from the constructor's arguments.      *)

Range(xs) == {xs[p] : p \in 1..Len(xs)}

NMat == Len(local_mats)
NNuc == Len(nuclides)

\* the 0-based positions at which a name was supplied
PositionsOf(xs, x) == {p - 1 : p \in {q \in 1..Len(xs) : xs[q] = x}}
LastPositionOf(xs, x) ==
    CHOOSE p \in PositionsOf(xs, x) : \A q \in PositionsOf(xs, x) : q <= p

\* keys that select one existing row / column
OneMat(mat) ==
    \/ mat.t = "str" /\ mat.s \in Range(local_mats)
    \/ mat.t = "mat" /\ Str(mat.i) \in Range(local_mats)
    \/ mat.t = "int" /\ mat.i >= -NMat /\ mat.i < NMat
OneNuc(nuc) ==
    \/ nuc.t = "str" /\ nuc.s \in Range(nuclides)
    \/ nuc.t = "int" /\ nuc.i >= -NNuc /\ nuc.i < NNuc
ValidMat(mat) == OneMat(mat) \/ mat.t = "slice"
ValidNuc(nuc) == OneNuc(nuc) \/ nuc.t = "slice"

\* names the constructor was not given
UnknownMat(mat) ==
    \/ mat.t = "str" /\ mat.s \notin Range(local_mats)
    \/ mat.t = "mat" /\ Str(mat.i) \notin Range(local_mats)
UnknownNuc(nuc) == nuc.t = "str" /\ nuc.s \notin Range(nuclides)

\* the object can be called: no exception has ended the run
Callable == raised = "none"

AsConstructed ==
    /\ index_mat = EnumerateDict(local_mats, NMat)
    /\ index_nuc = EnumerateDict(nuclides, NNuc)
    /\ volume = InitVolume(local_mats, index_mat, volume_arg)
    /\ Len(number) = NMat
    /\ \A i \in 1..NMat : Len(number[i]) = NNuc

HasData == \E i \in 1..NMat : \E j \in 1..NNuc : number[i][j] # 0

\* every element of an array read back is x
AllAre(g, x) ==
    CASE g.shape = "scalar" -> g.val = x
      [] g.shape = "vec" -> \A q \in 1..Len(g.val) : g.val[q] = x
      [] g.shape = "mat" ->
            \A p \in 1..Len(g.val) : \A q \in 1..Len(g.val[p]) : g.val[p][q] = x
      [] OTHER -> FALSE

---------------------------------------------------------------------------
(* C1: round trip. In every reachable state, for every valid material and  *)
(* nuclide selection and every value v, set(m, n, v) succeeds and get(m,   *)
(* n) on the table it leaves returns v: v itself when both selections are  *)
(* single positions, an array holding v everywhere when one is a range.    *)
C1_RoundTrip ==
    Callable =>
    \A mat \in MatKeys, nuc \in NucKeys, val \in Scalars :
        (ValidMat(mat) /\ ValidNuc(nuc)) =>
            LET w == setitem(number, mat, nuc, val)
                g == getitem(w.number, mat, nuc)
            IN  /\ w.err = "none"
                /\ g.err = "none"
                /\ AllAre(g, val.xs[1])
                /\ (OneMat(mat) /\ OneNuc(nuc)) => g.shape = "scalar"

\* a table in which a round trip overwrites a value already written
C1_Witness ==
    /\ Callable
    /\ \E mat \in MatKeys, nuc \in NucKeys :
          /\ OneMat(mat) /\ OneNuc(nuc)
          /\ getitem(number, mat, nuc).val = 1
          /\ getitem(setitem(number, mat, nuc, Scalar(2)).number, mat, nuc).val = 2

---------------------------------------------------------------------------
(* C2 as claimed: for every material name M supplied at position i and     *)
(* every nuclide name N supplied at position j, get(M, N), get(i, j),      *)
(* get(M, j) and get(i, N) return the same value.                          *)
C2_AnyPosition ==
    Callable =>
    \A i \in 0..NMat - 1, j \in 0..NNuc - 1 :
        LET M == Name(local_mats[i + 1])
            N == Name(nuclides[j + 1])
            a == getitem(number, M, N)
        IN  /\ a.err = "none"
            /\ getitem(number, Pos(i), Pos(j)) = a
            /\ getitem(number, M, Pos(j)) = a
            /\ getitem(number, Pos(i), N) = a

(* C2 amended: the same, where i is the last position at which M was       *)
(* supplied and j the last position at which N was supplied (the only      *)
(* position, when names are unique); and a write made through either form  *)
(* is read back through the other.                                         *)
C2_Interchangeable ==
    Callable =>
    \A M \in Range(local_mats), N \in Range(nuclides) :
        LET i == LastPositionOf(local_mats, M)
            j == LastPositionOf(nuclides, N)
            a == getitem(number, Name(M), Name(N))
        IN  /\ a.err = "none" /\ a.shape = "scalar"
            /\ getitem(number, Pos(i), Pos(j)) = a
            /\ getitem(number, Name(M), Pos(j)) = a
            /\ getitem(number, Pos(i), Name(N)) = a
            /\ \A val \in Scalars :
                  /\ getitem(setitem(number, Name(M), Name(N), val).number,
                             Pos(i), Pos(j)).val = val.xs[1]
                  /\ getitem(setitem(number, Pos(i), Pos(j), val).number,
                             Name(M), Name(N)).val = val.xs[1]

\* a repeated material name whose two rows hold different data
C2_Witness ==
    /\ Callable
    /\ NMat = 2 /\ local_mats[1] = local_mats[2]
    /\ number[1] # number[2]
    /\ getitem(number, Name(local_mats[1]), Pos(0)).val = 2

---------------------------------------------------------------------------
---------------------------------------------------------------------------
(* C4: set_all_densities(vals) does what the calls set_burnable_slice(i,   *)
(* vals[i]), i = 0, 1, ..., made in ascending order do, the first failing  *)
(* call ending both; and when vals holds at most num_materials arrays of   *)
(* length n_burn it succeeds, burnable_slice(i) is vals[i] for every i it  *)
(* covers, the i-th array being in the row at position i, and every other  *)
(* cell of the table is as before.                                         *)
RECURSIVE C4_Calls(_, _, _)
C4_Calls(num, vals, n) ==
    IF n = 0 THEN [err |-> "none", number |-> num]
    ELSE LET before == C4_Calls(num, vals, n - 1)
         IN  IF before.err # "none" THEN before
             ELSE set_mat_slice(before.number, Pos(n - 1), Vec(vals[n]))

C4_WellShaped(vals) ==
    /\ Len(vals) <= NMat
    /\ \A i \in 1..Len(vals) : Len(vals[i]) = n_nuc_burn

C4_SetDensity ==
    Callable =>
    \A vals \in TotalDensities :
        LET r == set_density(number, vals)
        IN  /\ r = C4_Calls(number, vals, Len(vals))
            /\ C4_WellShaped(vals) =>
                  /\ r.err = "none"
                  /\ r.number =
                        [i \in 1..NMat |-> [j \in 1..NNuc |->
                            IF i <= Len(vals) /\ j <= n_nuc_burn
                            THEN vals[i][j] ELSE number[i][j]]]
                  /\ \A i \in 0..Len(vals) - 1 :
                        get_mat_slice(r.number, Pos(i)).val = vals[i + 1]

\* one array for two materials, one burnable nuclide of two: the call
\* rewrites one cell of a table that holds data everywhere
C4_Witness ==
    /\ Callable
    /\ NMat = 2 /\ NNuc = 2 /\ n_nuc_burn = 1
    /\ \A i \in 1..2 : \A j \in 1..2 : number[i][j] # 0
    /\ \E vals \in TotalDensities :
          /\ Len(vals) = 1 /\ C4_WellShaped(vals)
          /\ set_density(number, vals).err = "none"
          /\ set_density(number, vals).number # number

---------------------------------------------------------------------------
(* C5 as claimed: for every valid material m, nuclide n and density d,     *)
(* set_atom_density(m, n, d) followed by atom_density(m, n) returns d,     *)
(* whatever the material's volume.                                         *)
C5_AnyVolume ==
    Callable =>
    \A mat \in MatKeys1, nuc \in NucKeys, d \in Densities :
        (OneMat(mat) /\ OneNuc(nuc)) =>
            LET w == set_atom_density(number, mat, nuc, d)
                g == get_atom_density(w.number, mat, nuc)
            IN  w.err = "none" /\ g.err = "none" /\ g.val = <<d.xs[1], 1>>

(* C5 amended: the stored quantity is d * volume_of(m); atom_density(m, n) *)
(* then returns d when the volume is not 0, and nan when it is 0.          *)
C5_DensityRoundTrip ==
    Callable =>
    \A mat \in MatKeys1, nuc \in NucKeys, d \in Densities :
        (OneMat(mat) /\ OneNuc(nuc)) =>
            LET w == set_atom_density(number, mat, nuc, d)
                g == get_atom_density(w.number, mat, nuc)
                v == get_mat_volume(mat)
            IN  /\ w.err = "none" /\ g.err = "none" /\ v.err = "none"
                /\ g.shape = "scalar"
                /\ getitem(w.number, mat, nuc).val = d.xs[1] * v.val
                /\ v.val # 0 => g.val = <<d.xs[1], 1>>
                /\ v.val = 0 => g.val = <<0, 0>>

\* a material of volume 2 holding 2 atoms of a nuclide: the density reads 1
C5_Witness ==
    /\ Callable
    /\ volume[1] = 2 /\ number[1][1] = 2
    /\ set_atom_density(number, Pos(0), Pos(0), Scalar(1)).number = number
    /\ get_atom_density(number, Name(local_mats[1]), Pos(0)).val = <<1, 1>>

---------------------------------------------------------------------------
(* C6: volume table. The volume array has one entry per material; for      *)
(* every material m on the axis volume_of(m) is volumes[m] when m is a key *)
(* of the constructor's volume mapping and 1 otherwise; a key that is not  *)
(* on the axis changes no entry.                                           *)
C6_VolumeTable ==
    /\ Len(volume) = NMat
    /\ \A m \in Range(local_mats) :
          LET v == get_mat_volume(Name(m))
          IN  /\ v.err = "none" /\ v.shape = "scalar"
              /\ v.val = IF m \in DOMAIN volume_arg THEN volume_arg[m] ELSE 1
    /\ \A p \in 1..NMat :
          \/ volume[p] = 1
          \/ /\ local_mats[p] \in DOMAIN volume_arg
             /\ volume[p] = volume_arg[local_mats[p]]

\* one material with a supplied volume, one left at the default, and data
C6_Witness ==
    /\ local_mats = <<"2", "1">>
    /\ DOMAIN volume_arg = {"1"} /\ volume_arg["1"] = 2
    /\ get_mat_volume(Name("1")).val = 2
    /\ get_mat_volume(Name("2")).val = 1
    /\ HasData

---------------------------------------------------------------------------
(* C7: unknown names. In every reachable state get and set called with a   *)
(* material string that is not on the material axis fail with              *)
(* UnknownMaterial, and called with a nuclide string that is not on the    *)
(* nuclide axis fail with UnknownNuclide (the material is looked up first, *)
(* so UnknownMaterial when both are unknown); set leaves the table as it   *)
(* was, and the volume table is as constructed.                            *)
C7_UnknownNames ==
    /\ volume = InitVolume(local_mats, index_mat, volume_arg)
    /\ Callable =>
       \A mat \in MatKeys, nuc \in NucKeys, val \in Scalars :
           LET g == getitem(number, mat, nuc)
               w == setitem(number, mat, nuc, val)
           IN  /\ UnknownMat(mat) =>
                     /\ g.err = "UnknownMaterial"
                     /\ w.err = "UnknownMaterial" /\ w.number = number
               /\ (UnknownNuc(nuc) /\ ~UnknownMat(mat)) =>
                     /\ g.err = "UnknownNuclide"
                     /\ w.err = "UnknownNuclide" /\ w.number = number
    /\ raised \in {"UnknownMaterial", "UnknownNuclide"} => AsConstructed

\* a call has failed on an unknown nuclide name, on a table holding data
C7_Witness ==
    /\ raised = "UnknownNuclide"
    /\ HasData
    /\ setitem(number, Pos(0), Name(NoNuc), Scalar(1)).err = "UnknownNuclide"

---------------------------------------------------------------------------
(* C8 as claimed: for integer positions, a material position outside       *)
(* [0, num_materials) or a nuclide position outside [0, num_nuclides),     *)
(* negative values included, makes get and set fail with an out-of-bounds  *)
(* fault, and set modifies no cell.                                        *)
C8_NegativesFault ==
    Callable =>
    \A mat \in MatKeys, nuc \in NucKeys, val \in Scalars :
        (/\ mat.t = "int" /\ nuc.t = "int"
         /\ \/ mat.i < 0 \/ mat.i >= NMat
            \/ nuc.i < 0 \/ nuc.i >= NNuc) =>
            LET w == setitem(number, mat, nuc, val)
            IN  /\ getitem(number, mat, nuc).err = "IndexError"
                /\ w.err = "IndexError" /\ w.number = number

C8_Outside(k, n) == k.t = "int" /\ (k.i < -n \/ k.i >= n)

C8_Wrapped(k, n) ==
    IF k.t = "int" /\ k.i < 0 /\ k.i >= -n THEN Pos(k.i + n) ELSE k

(* C8 amended: a material position outside [-num_materials, num_materials) *)
(* or a nuclide position outside [-num_nuclides, num_nuclides) makes get   *)
(* and set fail with an out-of-bounds fault (the other argument being an   *)
(* integer, a range or a known name), and set modifies no cell; a negative *)
(* position p inside that range does not fault: it addresses position      *)
(* p + length of the axis.                                                 *)
C8_OutOfRange ==
    Callable =>
    \A mat \in MatKeys, nuc \in NucKeys, val \in Scalars :
        LET g == getitem(number, mat, nuc)
            w == setitem(number, mat, nuc, val)
        IN  /\ (/\ ~UnknownMat(mat) /\ ~UnknownNuc(nuc)
                /\ (C8_Outside(mat, NMat) \/ C8_Outside(nuc, NNuc))) =>
                   /\ g.err = "IndexError"
                   /\ w.err = "IndexError" /\ w.number = number
            /\ (/\ mat.t = "int" /\ nuc.t = "int"
                /\ ~C8_Outside(mat, NMat) /\ ~C8_Outside(nuc, NNuc)) =>
                   /\ g.err = "none" /\ w.err = "none"
                   /\ g = getitem(number, C8_Wrapped(mat, NMat),
                                  C8_Wrapped(nuc, NNuc))
                   /\ w = setitem(number, C8_Wrapped(mat, NMat),
                                  C8_Wrapped(nuc, NNuc), val)

\* a call has failed on a position out of range, on a table in which
\* position -1 reads the data of the last row and column
C8_Witness ==
    /\ raised = "IndexError"
    /\ NMat = 2 /\ NNuc = 2
    /\ number[2][2] = 2 /\ number[1][1] # 2
    /\ getitem(number, Pos(-1), Pos(-1)).val = 2
    /\ getitem(number, Pos(-3), Pos(0)).err = "IndexError"

---------------------------------------------------------------------------
(* C9 as claimed: burnable_nuclide_names() is the sequence of the nuclide  *)
(* names at positions 0, ..., n_burn-1, as long as burnable_slice(m), its  *)
(* k-th name labelling the k-th element of burnable_slice(m).              *)
C9_AnyNames ==
    /\ Len(burnable_nuclides) = n_nuc_burn
    /\ \A k \in 1..n_nuc_burn : burnable_nuclides[k] = nuclides[k]
    /\ Callable =>
       \A mat \in MatKeys1 :
           OneMat(mat) =>
               LET sl == get_mat_slice(number, mat)
               IN  /\ Len(sl.val) = Len(burnable_nuclides)
                   /\ \A k \in 1..Len(sl.val) :
                         getitem(number, mat, Name(burnable_nuclides[k])).val
                             = sl.val[k]

\* no name at a position below n_burn is supplied again at a later position
C9_NoLaterRepeat ==
    \A p \in 1..n_nuc_burn : \A q \in p + 1..NNuc : nuclides[q] # nuclides[p]

(* C9 amended: the same, provided no nuclide name at a position below      *)
(* n_burn is supplied again at a later position (so whenever the names are *)
(* unique).                                                                *)
C9_BurnableNames == C9_NoLaterRepeat => C9_AnyNames

\* two nuclides, the first burnable, both with data in a row
C9_Witness ==
    /\ Callable
    /\ nuclides = <<"O16", "U235">> /\ n_nuc_burn = 1
    /\ burnable_nuclides = <<"O16">>
    /\ number[1] = <<2, 1>>
    /\ get_mat_slice(number, Pos(0)).val = <<2>>

---------------------------------------------------------------------------
(* C10: frame. In every reachable state a set(m, n, v) with single         *)
(* positions changes at most one cell, the one get(m, n) reads, and a      *)
(* set_burnable_slice(m, vals) with a single material changes cells of one *)
(* row only, at nuclide positions below n_burn; and after any sequence of  *)
(* writes the index mappings, the volume table and the table's shape are   *)
(* as constructed, and no step changes them or n_burn.                     *)
C10_OnlyCell(old, new, mat, nuc) ==
    \E i \in 1..NMat, j \in 1..NNuc :
        /\ getitem(new, mat, nuc).val = new[i][j]
        /\ getitem([new EXCEPT ![i][j] = 0], mat, nuc).val = 0
        /\ new = [old EXCEPT ![i][j] = new[i][j]]

C10_OnlyRow(old, new) ==
    \E i \in 1..NMat :
        \A i2 \in 1..NMat, j \in 1..NNuc :
            (i2 # i \/ j > n_nuc_burn) => new[i2][j] = old[i2][j]

C10_Writes ==
    /\ AsConstructed
    /\ Callable =>
       /\ \A mat \in MatKeys1, nuc \in NucKeys, val \in Scalars :
              (OneMat(mat) /\ OneNuc(nuc)) =>
                  LET w == setitem(number, mat, nuc, val)
                  IN  w.err = "none" /\ C10_OnlyCell(number, w.number, mat, nuc)
       /\ \A mat \in MatKeys1, val \in Vecs :
              OneMat(mat) =>
                  LET w == set_mat_slice(number, mat, val)
                  IN  /\ C10_OnlyRow(number, w.number)
                      /\ Len(val.xs) = n_nuc_burn =>
                            /\ w.err = "none"
                            /\ get_mat_slice(w.number, mat).val = val.xs

C10_Frame ==
    /\ []C10_Writes
    /\ [][UNCHANGED <<index_mat, index_nuc, volume, n_nuc_burn>>]_vars

\* a table holding data in every cell, one of whose burnable cells a write
\* through set_burnable_slice changes
C10_Witness ==
    /\ Callable
    /\ NMat = 2 /\ NNuc = 2 /\ n_nuc_burn = 1
    /\ \A i \in 1..2 : \A j \in 1..2 : number[i][j] = 1
    /\ set_mat_slice(number, Name(local_mats[2]), Vec(<<2>>)).number
           = <<<<1, 1>>, <<2, 1>>>>

============================================================================
